---- MODULE Spec2Model ----
(***************************************************************************)
(* Model of tarent/gomulocity:                                             *)
(*   - the page traversal of the measurement API (NextPage, PreviousPage,  *)
(*     getPage, getCommon, parseMeasurementCollectionResponse) and the     *)
(*     error construction of package generic;                              *)
(*   - the structural serializer JsonFromObject of package generic.        *)
(* Strings that the code takes apart (page references) are sequences of    *)
(* one-character strings; other strings are atoms.                         *)
(***************************************************************************)
EXTENDS Integers, Sequences, FiniteSets, TLC

VARIABLES
    pc,        \* "idle" | "fetching" (blocked in client.Get) | "done"
    op,        \* "NextPage" | "PreviousPage" | "none": the running/last call
    coll,      \* the *MeasurementCollection argument of the call
    request,   \* the path handed to client.Get by this call (<<>> before)
    fetches,   \* number of client.Get invocations made by this call
    resp,      \* what client.Get returned to this call (NoResp before)
    outcome,   \* the (collection, error) pair the call returned
    last,      \* summary of the call completed before this one (NoCall);
               \* a behaviour is one call or two consecutive calls
    jin,       \* the argument of JsonFromObject
    jout,      \* the (json, error) pair JsonFromObject returned
    api,       \* the measurementApi object: client and basePath
    calls,     \* the NextPage/PreviousPage calls running concurrently on api
    get        \* a call of Get: argument, request, client.Get result, return

travVars == <<pc, op, coll, request, fetches, resp, outcome, last>>
jsonVars == <<jin, jout>>
moreVars == <<api, calls, get>>
vars == <<pc, op, coll, request, fetches, resp, outcome, last, jin, jout, api, calls, get>>

\* A pointer is a sequence: <<>> is nil, <<x>> points to x
Nil == <<>>
Ptr(x) == <<x>>

\* ------------------------------------------------------------------ bounds
MaxItems == 1
MaxFields == 3
NumCalls == 2
MaxIdLen == 2

\* --------------------------------------------------------- HTTP statuses
StatusOK == 200
StatusCreated == 201
StatusInternalServerError == 500
Statuses == {StatusOK, StatusCreated, StatusInternalServerError}
StatusNoContent == 204

\* ------------------------------------------------------- page references
\* "http://h/m?p=2": scheme, host, path and query
RefFull == <<"h", "t", "t", "p", ":", "/", "/", "h", "/", "m", "?", "p", "=", "2">>
\* "/m": a path without a query
RefNoQuery == <<"/", "m">>
\* "/a%2Fb?p=1": a path holding an escaped slash
RefEscaped == <<"/", "a", "%", "2", "F", "b", "?", "p", "=", "1">>
\* "/m%zz": an invalid escape, which url.Parse rejects
RefBad == <<"/", "m", "%", "z", "z">>
RefEmpty == <<>>
Refs == {RefEmpty, RefFull, RefNoQuery, RefEscaped, RefBad}
SelfRefs == {RefNoQuery, RefFull}

Measurements == {"m1"}
RECURSIVE SeqsUpTo(_, _)
SeqsUpTo(S, n) ==
    IF n = 0 THEN {<<>>}
    ELSE LET shorter == SeqsUpTo(S, n - 1)
         IN  shorter \cup {Append(s, x) : s \in {t \in shorter : Len(t) = n - 1}, x \in S}
ItemSeqs == SeqsUpTo(Measurements, MaxItems)

\* type MeasurementCollection: the fields the traversal reads
MeasurementCollection(self, next, prev, items) ==
    [Self |-> self, Next |-> next, Prev |-> prev, Measurements |-> items]
Collections ==
    {MeasurementCollection(s, n, p, i) :
        s \in SelfRefs, n \in Refs, p \in Refs, i \in ItemSeqs}

\* ------------------------------------------------------ generic.Error
Error(type, message, info) == [ErrorType |-> type, Message |-> message, Info |-> info]

ClientError(message, info) == Ptr(Error(<<"ClientError">>, <<message>>, <<info>>))

\* A JSON value of a response: a string or an array
JString(s) == [t |-> "string", v |-> s]
JArray(a) == [t |-> "array", v |-> a]

\* A response body is a sequence of documents: <<>> has length 0, a
\* document is text that is no JSON (json = FALSE) or a JSON object, a
\* record whose domain is the set of keys present.
EmptyBody == <<>>
InvalidBody == <<[json |-> FALSE, obj |-> [x |-> JString(<<>>)]]>>
JsonBody(o) == <<[json |-> TRUE, obj |-> o]>>
ErrorPayloadBody ==
    JsonBody([error |-> JString(<<"E">>), message |-> JString(<<"M">>),
              info |-> JString(<<"I">>)])
CollectionBody(items) ==
    JsonBody([self |-> JString(RefNoQuery), next |-> JString(RefFull),
              measurements |-> JArray(items)])
Bodies ==
    {EmptyBody, InvalidBody, ErrorPayloadBody}
        \cup {CollectionBody(i) : i \in ItemSeqs}

IsJsonObject(body) == Len(body) > 0 /\ body[1].json
\* json.Unmarshal of one member into a field of the given type: an absent
\* member, or one of another type, leaves the zero value
Member(obj, key, type) ==
    IF key \in DOMAIN obj
    THEN IF obj[key].t = type THEN obj[key].v ELSE <<>>
    ELSE <<>>

\* json.Unmarshal with its error dropped: the members present fill the
\* fields, the others keep their zero value; the pointer is never nil.
CreateErrorFromResponse(responseBody) ==
    IF IsJsonObject(responseBody)
    THEN Ptr(Error(Member(responseBody[1].obj, "error", "string"),
                   Member(responseBody[1].obj, "message", "string"),
                   Member(responseBody[1].obj, "info", "string")))
    ELSE Ptr(Error(<<>>, <<>>, <<>>))

NoResp == [terr |-> FALSE, status |-> 0, body |-> EmptyBody]
Responses ==
    {[terr |-> TRUE, status |-> 0, body |-> EmptyBody]}
        \cup {[terr |-> FALSE, status |-> s, body |-> b] : s \in Statuses, b \in Bodies}

\* -------------------------------------------------------------- url.Parse
IsHex(c) == c \in {"0", "1", "2", "3", "4", "5", "6", "7", "8", "9",
                   "A", "B", "C", "D", "E", "F", "a", "b", "c", "d", "e", "f"}
\* the characters the escapes of this model decode to
Unhex(a, b) == IF <<a, b>> = <<"2", "F">> THEN "/"
               ELSE IF <<a, b>> = <<"3", "F">> THEN "?"
               ELSE "_"

IndexOf(s, c) ==
    IF \E i \in 1..Len(s) : s[i] = c
    THEN CHOOSE i \in 1..Len(s) : s[i] = c /\ \A j \in 1..(i - 1) : s[j] # c
    ELSE 0
Before(s, c) == IF IndexOf(s, c) = 0 THEN s ELSE SubSeq(s, 1, IndexOf(s, c) - 1)
After(s, c) == IF IndexOf(s, c) = 0 THEN <<>> ELSE SubSeq(s, IndexOf(s, c) + 1, Len(s))
HasPrefix(s, p) == Len(s) >= Len(p) /\ SubSeq(s, 1, Len(p)) = p

IsLetter(c) == c \in {"h", "t", "p", "m", "a", "b", "z"}
\* getScheme: leading letters up to a colon
SchemeLen(s) ==
    LET i == IndexOf(s, ":")
    IN  IF i > 1 /\ \A j \in 1..(i - 1) : IsLetter(s[j]) THEN i ELSE 0
\* what follows the scheme and the "//authority"
StripAuthority(s) ==
    IF HasPrefix(s, <<"/", "/">>)
    THEN LET rest == SubSeq(s, 3, Len(s))
             i == IndexOf(rest, "/")
         IN  IF i = 0 THEN <<>> ELSE SubSeq(rest, i, Len(rest))
    ELSE s

ValidEscapes(s) ==
    \A i \in 1..Len(s) :
        s[i] = "%" => (i + 2 <= Len(s) /\ IsHex(s[i + 1]) /\ IsHex(s[i + 2]))
RECURSIVE Unescape(_)
Unescape(s) ==
    IF s = <<>> THEN <<>>
    ELSE IF s[1] = "%"
         THEN <<Unhex(s[2], s[3])>> \o Unescape(SubSeq(s, 4, Len(s)))
         ELSE <<s[1]>> \o Unescape(SubSeq(s, 2, Len(s)))

\* The part of the reference string between the authority and the fragment,
\* as written by the server.
RawPathAndQuery(ref) ==
    LET noFrag == Before(ref, "#")
        noScheme == SubSeq(noFrag, SchemeLen(noFrag) + 1, Len(noFrag))
    IN  StripAuthority(noScheme)

\* (variant: an invalid escape is let through, the path taken as written)
UrlParseNeverFails(ref) ==
    [err |-> FALSE, Path |-> Before(RawPathAndQuery(ref), "?"),
     RawQuery |-> After(RawPathAndQuery(ref), "?")]
UrlParse(ref) ==
    LET rest == RawPathAndQuery(ref)
        rawPath == Before(rest, "?")
    IN  IF ValidEscapes(rawPath)
        THEN [err |-> FALSE, Path |-> Unescape(rawPath), RawQuery |-> After(rest, "?")]
        ELSE [err |-> TRUE, Path |-> <<>>, RawQuery |-> <<>>]

\* ============================================== serializer JsonFromObject
\* A value: kind k, the text v of a scalar, and the items of a composite:
\* the fields of a struct, the key/value entries of a map (in iteration
\* order), the elements of a sequence, the target of a non-nil pointer.
Value(k, v, items) == [k |-> k, v |-> v, items |-> items]
StringV(s) == Value("string", s, <<>>)
NumberV(n) == Value("number", n, <<>>)
BoolV(b) == Value("bool", b, <<>>)
StructV(fields) == Value("struct", "", fields)
MapV(entries) == Value("map", "", entries)
SeqV(elems) == Value("seq", "", elems)
PtrV(target) == Value("ptr", "", target)

\* A struct field with its tags: json:"<jsonName>,<jsonOpts>" jsonc:"<jsonc>"
Field(id, jsonName, jsonOpts, jsonc, val) ==
    [id |-> id, jsonName |-> jsonName, jsonOpts |-> jsonOpts, jsonc |-> jsonc, val |-> val]
\* a map entry, a sequence element or a pointer target carries no tags
Item(key, val) == Field(key, "", {}, "", val)

\* ---- Field Descriptor Resolver
HardOmit(f) == f.jsonName = "-"
OmitIfEmpty(f) == "omitempty" \in f.jsonOpts
Flatten(f) == f.jsonc = "flat"
SequenceMarker(f) == f.jsonc = "collection"
EffectiveName(f) == IF f.jsonName \notin {"", "-"} THEN f.jsonName ELSE f.id

\* the zero/empty value of each kind
\* (variant: a zero number not counted as empty)
IsEmptyValueNumbersNeverEmpty(val) ==
    \/ val.k = "string" /\ val.v = ""
    \/ val.k = "bool" /\ val.v = "false"
    \/ val.k \in {"ptr", "seq", "map"} /\ val.items = <<>>
IsEmptyValue(val) ==
    \/ val.k = "string" /\ val.v = ""
    \/ val.k = "number" /\ val.v = "0"
    \/ val.k = "bool" /\ val.v = "false"
    \/ val.k \in {"ptr", "seq", "map"} /\ val.items = <<>>

\* ---- Flatten/Kind Validator
\* (variant: flatten accepted on every kind)
FlattenKindOkAnyKind(k) == TRUE
FlattenKindOk(k) == k \in {"map", "struct"}
Misused(f) ==
    \/ Flatten(f) /\ ~FlattenKindOk(f.val.k)
    \/ SequenceMarker(f) /\ f.val.k # "seq"
SchemaError(field, kind) == <<[type |-> "Schema", field |-> field, kind |-> kind]>>
NoError == <<>>

\* ---- the JSON object node: ordered members; src is the index of the
\* field of the enclosing record that contributed the member
JNode(t, v, members) == [t |-> t, v |-> v, members |-> members]
JMember(key, src, node) == [key |-> key, src |-> src, val |-> node]
WithSrc(members, i) == [j \in 1..Len(members) |-> [members[j] EXCEPT !.src = i]]
Rendered(err, members) == [err |-> err, members |-> members]

\* step 3 before step 4: flatten contributions, then the other fields
\* (variant: the other fields emitted before the flatten contributions)
EmitOrderFieldsFirst(flatPart, restPart) == restPart \o flatPart
EmitOrder(flatPart, restPart) == flatPart \o restPart

RECURSIVE RenderValue(_), RenderFields(_), RenderItems(_, _), EmitFlat(_, _), EmitRest(_, _)
\* a value as a JSON node: [err, members = <<the node as one member>>]
RenderValue(val) ==
    IF val.k = "struct"
    THEN LET r == RenderFields(val.items)
         IN  Rendered(r.err, <<JMember("", 0, JNode("object", "", r.members))>>)
    ELSE IF val.k = "map"
    THEN LET r == RenderItems(val.items, 1)
         IN  Rendered(r.err, <<JMember("", 0, JNode("object", "", r.members))>>)
    ELSE IF val.k = "seq"
    THEN LET r == RenderItems(val.items, 1)
         IN  Rendered(r.err, <<JMember("", 0, JNode("array", "", r.members))>>)
    ELSE IF val.k = "ptr"
    THEN IF val.items = <<>>
         THEN Rendered(NoError, <<JMember("", 0, JNode("null", "", <<>>))>>)
         ELSE RenderValue(val.items[1].val)
    ELSE Rendered(NoError, <<JMember("", 0, JNode(val.k, val.v, <<>>))>>)

\* the entries of a map (keyed) or the elements of a sequence, from i on
RenderItems(items, i) ==
    IF i > Len(items) THEN Rendered(NoError, <<>>)
    ELSE LET head == RenderValue(items[i].val)
             tail == RenderItems(items, i + 1)
         IN  IF head.err # NoError THEN Rendered(head.err, <<>>)
             ELSE IF tail.err # NoError THEN Rendered(tail.err, <<>>)
             ELSE Rendered(NoError,
                           <<JMember(items[i].id, i, head.members[1].val)>> \o tail.members)

\* step 3: the contributions of the flatten fields, from field i on
EmitFlat(fields, i) ==
    IF i > Len(fields) THEN Rendered(NoError, <<>>)
    ELSE LET f == fields[i]
             head == IF Flatten(f) /\ ~HardOmit(f)
                     THEN IF f.val.k = "map" THEN RenderItems(f.val.items, 1)
                          ELSE RenderFields(f.val.items)
                     ELSE Rendered(NoError, <<>>)
             tail == EmitFlat(fields, i + 1)
         IN  IF head.err # NoError THEN Rendered(head.err, <<>>)
             ELSE IF tail.err # NoError THEN Rendered(tail.err, <<>>)
             ELSE Rendered(NoError, WithSrc(head.members, i) \o tail.members)

\* step 4: the other fields under their effective names, from field i on
EmitRest(fields, i) ==
    IF i > Len(fields) THEN Rendered(NoError, <<>>)
    ELSE LET f == fields[i]
             skip == Flatten(f) \/ HardOmit(f) \/ (OmitIfEmpty(f) /\ IsEmptyValue(f.val))
             head == IF skip THEN Rendered(NoError, <<>>) ELSE RenderValue(f.val)
             tail == EmitRest(fields, i + 1)
         IN  IF head.err # NoError THEN Rendered(head.err, <<>>)
             ELSE IF tail.err # NoError THEN Rendered(tail.err, <<>>)
             ELSE IF skip THEN tail
             ELSE Rendered(NoError,
                           <<JMember(EffectiveName(f), i, head.members[1].val)>> \o tail.members)

\* steps 1 to 4 for one structured record
RenderFields(fields) ==
    LET bad == {i \in 1..Len(fields) : Misused(fields[i])}
    IN  IF bad # {}
        THEN LET i == CHOOSE x \in bad : \A y \in bad : x <= y
             IN  Rendered(SchemaError(fields[i].id, fields[i].val.k), <<>>)
        ELSE LET flatPart == EmitFlat(fields, 1)
                 restPart == EmitRest(fields, 1)
             IN  IF flatPart.err # NoError THEN Rendered(flatPart.err, <<>>)
                 ELSE IF restPart.err # NoError THEN Rendered(restPart.err, <<>>)
                 ELSE Rendered(NoError, EmitOrder(flatPart.members, restPart.members))

\* The argument of JsonFromObject: a value passed as it is (form "value")
\* or the address of a value (form "pointer").
Argument(form, val) == [form |-> form, val |-> val]
\* (variant: a record passed by value accepted too)
TopLevelAcceptedAnyRecord(a) == a.val.k = "struct"
TopLevelAccepted(a) == a.form = "pointer" /\ a.val.k = "struct"

\* what JsonFromObject returns: (json, error)
Returned(json, err) == [done |-> TRUE, json |-> json, err |-> err]
NotReturned == [done |-> FALSE, json |-> <<>>, err |-> NoError]
JsonFromObjectResult(a) ==
    IF ~TopLevelAccepted(a)
    THEN Returned(<<>>, SchemaError("", a.val.k))
    ELSE LET r == RenderFields(a.val.items)
         IN  IF r.err # NoError THEN Returned(<<>>, r.err)
             ELSE Returned(<<JNode("object", "", r.members)>>, NoError)

\* ---- the records serialized: fields drawn from the shapes of the tests
WrongFlat == Field("A", "", {}, "flat", StringV("Hello"))
WrongCollection == Field("A", "", {}, "collection", StringV("Hello"))
Sub == StructV(<<Field("Custom1", "one", {}, "", StringV("myCustom1")),
                 Field("Custom5", "", {"omitempty"}, "", StringV(""))>>)
FlatMap == Field("D", "", {}, "flat",
                 MapV(<<Item("Da", StringV("foo")), Item("Db", StringV("bar"))>>))
FieldPool ==
    { Field("B", "myB", {}, "", StringV("Foo")),
      Field("C", "", {}, "", NumberV("4711")),
      Field("I", "myI", {"otherstuff"}, "", StringV("")),
      Field("E", "myE", {"omitempty"}, "", StringV("")),
      Field("E", "myE", {"omitempty"}, "", StringV("x")),
      Field("G", "", {"omitempty"}, "", NumberV("0")),
      Field("G", "", {"omitempty"}, "", NumberV("7")),
      Field("F", "myF", {"omitempty"}, "", BoolV("false")),
      Field("H", "myH", {"omitempty"}, "", PtrV(<<>>)),
      Field("H", "myH", {}, "", PtrV(<<>>)),
      Field("L", "", {"omitempty"}, "", SeqV(<<>>)),
      Field("L", "ops", {}, "collection", SeqV(<<Item("", Sub)>>)),
      Field("M", "", {"omitempty"}, "", MapV(<<>>)),
      Field("X", "-", {}, "flat", StringV("Bar")),
      Field("N", "-", {}, "", StructV(<<WrongFlat>>)),
      Field("N", "", {}, "", StructV(<<WrongFlat>>)),
      FlatMap,
      Field("S", "", {}, "flat", Sub),
      WrongFlat,
      WrongCollection }

\* the field lists of at most n fields with pairwise different identifiers
RECURSIVE FieldLists(_)
FieldLists(n) ==
    IF n = 0 THEN {<<>>}
    ELSE LET shorter == FieldLists(n - 1)
         IN  shorter \cup
             {Append(fs, f) : fs \in {t \in shorter : Len(t) = n - 1},
                              f \in FieldPool}
DistinctIds(fs) == \A i, j \in 1..Len(fs) : i # j => fs[i].id # fs[j].id

Arguments ==
    {Argument(form, StructV(fs)) :
        form \in {"pointer", "value"},
        fs \in {t \in FieldLists(MaxFields) : Len(t) > 0 /\ DistinctIds(t)}}
      \cup {Argument("value", StringV("Hallo Welt")), Argument("pointer", StringV("Hallo Welt"))}
NoArgument == Argument("value", StringV(""))

\* ---------------------------------------------------------- the outcomes
Outcome(c, e) == [collection |-> c, err |-> e]
NoOutcome == Outcome(Nil, Nil)
NoCall == [ref |-> RefEmpty, fetched |-> FALSE, resp |-> NoResp,
           request |-> <<>>, outcome |-> NoOutcome, valid |-> FALSE]

\* (variant: the links of the decoded collection are not filled in)
parseMeasurementCollectionResponseDropsLinks(body) ==
    IF Len(body) > 0
    THEN IF ~IsJsonObject(body)
         THEN [collection |-> Nil,
               err |-> ClientError("Error while parsing response JSON", "CollectionResponseParser")]
         ELSE [collection |-> Ptr(MeasurementCollection(<<>>, <<>>, <<>>,
                                    Member(body[1].obj, "measurements", "array"))),
               err |-> Nil]
    ELSE [collection |-> Nil,
          err |-> ClientError("Response body was empty", "CollectionResponseParser")]
\* parseMeasurementCollectionResponse
parseMeasurementCollectionResponse(body) ==
    IF Len(body) > 0
    THEN IF ~IsJsonObject(body)
         THEN Outcome(Nil, ClientError("Error while parsing response JSON", "CollectionResponseParser"))
         ELSE Outcome(Ptr(MeasurementCollection(Member(body[1].obj, "self", "string"),
                                                Member(body[1].obj, "next", "string"),
                                                Member(body[1].obj, "prev", "string"),
                                                Member(body[1].obj, "measurements", "array"))),
                      Nil)
    ELSE Outcome(Nil, ClientError("Response body was empty", "CollectionResponseParser"))

\* getCommon's test of the status: status != http.StatusOK
\* (variant: only 5xx statuses are taken as failures)
getCommonStatusCheckServerErrorsOnly(r) == r.status >= StatusInternalServerError
getCommonStatusCheck(r) == r.status # StatusOK

\* getCommon, from the return of client.Get on
getCommon(r) ==
    IF r.terr
    THEN Outcome(Nil, ClientError("Error while getting measurements", "GetMeasurementCollection"))
    ELSE IF getCommonStatusCheck(r)
         THEN Outcome(Nil, CreateErrorFromResponse(r.body))
         ELSE parseMeasurementCollectionResponse(r.body)

\* getPage's test of the decoded page: len(collection.Measurements) == 0
\* (variant: the test left out, every decoded page is returned)
IsEmptyPageKeepsAll(c) == FALSE
IsEmptyPage(c) == Len(c.Measurements) = 0

\* getPage, from the return of getCommon on
getPageResult(r) ==
    LET got == getCommon(r)
    IN  IF got.err # Nil THEN Outcome(Nil, got.err)
        ELSE IF IsEmptyPage(got.collection[1]) THEN Outcome(Nil, Nil)
        ELSE Outcome(got.collection, Nil)

\* the path getPage hands to getCommon: Sprintf("%s?%s", Path, RawQuery)
PagePath(u) == u.Path \o <<"?">> \o u.RawQuery

\* the link the running call selects: c.Next in NextPage, c.Prev in PreviousPage
SelectedLink == IF op = "NextPage" THEN coll.Next ELSE coll.Prev

\* getPage's test of its argument: reference == ""
\* (variant: the test left out)
IsAbsentNeverTrue(reference) == FALSE
IsAbsent(reference) == reference = RefEmpty

Summary(ref) ==
    [ref |-> ref, fetched |-> fetches > 0, resp |-> resp,
     request |-> request, outcome |-> outcome, valid |-> TRUE]

\* ------------------------------------------------------------------ Get
GetOutcome(m, e) == [measurement |-> m, err |-> e]
NoGet == [pc |-> "idle", id |-> <<>>, request |-> <<>>, fetches |-> 0,
          resp |-> NoResp, outcome |-> GetOutcome(Nil, Nil)]

\* measurement ids, as sequences of characters
IdChars == {"m", " ", "/"}
MeasurementIds == SeqsUpTo(IdChars, MaxIdLen)

\* url.QueryEscape: unreserved characters stay, a space becomes "+", any
\* other character becomes "%" and its two hexadecimal digits
RECURSIVE QueryEscape(_)
QueryEscape(id) ==
    IF id = <<>> THEN <<>>
    ELSE (IF Head(id) = " " THEN <<"+">>
          ELSE IF Head(id) = "/" THEN <<"%", "2", "F">>
          ELSE <<Head(id)>>) \o QueryEscape(Tail(id))

\* the Measurement json.Unmarshal fills: members absent from the document
\* keep their zero value
Measurement(id) == [Id |-> id]
MeasurementBody(id) == JsonBody([id |-> JString(id)])
GetStatuses == Statuses \cup {StatusNoContent}
GetResponses ==
    Responses
        \cup {[terr |-> FALSE, status |-> s, body |-> b] :
                s \in {StatusNoContent}, b \in Bodies}
        \cup {[terr |-> FALSE, status |-> s, body |-> MeasurementBody(<<"m">>)] :
                s \in GetStatuses}

parseMeasurementResponse(body) ==
    IF Len(body) > 0
    THEN IF ~IsJsonObject(body)
         THEN GetOutcome(Nil, ClientError("Error while parsing response JSON", "ResponseParser"))
         ELSE GetOutcome(Ptr(Measurement(Member(body[1].obj, "id", "string"))), Nil)
    ELSE GetOutcome(Nil, ClientError("Response body was empty", "GetMeasurement"))

\* (variant: Get hands a bad status on as getCommon does)
GetResultReportsRemoteError(r) ==
    IF r.terr
    THEN GetOutcome(Nil, ClientError("Error while getting a measurement", "GetMeasurement"))
    ELSE IF r.status # StatusOK
         THEN GetOutcome(Nil, CreateErrorFromResponse(r.body))
         ELSE parseMeasurementResponse(r.body)
\* Get, from the return of client.Get on
GetResult(r) ==
    IF r.terr
    THEN GetOutcome(Nil, ClientError("Error while getting a measurement", "GetMeasurement"))
    ELSE IF r.status # StatusOK
         THEN GetOutcome(Nil, Nil)
         ELSE parseMeasurementResponse(r.body)

\* Create, from the return of client.Post on
CreateResult(r) ==
    IF r.terr
    THEN GetOutcome(Nil, ClientError("Error while posting a new measurement", "CreateMeasurement"))
    ELSE IF r.status # StatusCreated
         THEN GetOutcome(Nil, CreateErrorFromResponse(r.body))
         ELSE parseMeasurementResponse(r.body)

\* Delete, from the return of client.Delete on
DeleteResult(r) ==
    IF r.terr
    THEN ClientError("Error while deleting measurement with id", "DeleteMeasurement")
    ELSE IF r.status # StatusNoContent
         THEN CreateErrorFromResponse(r.body)
         ELSE Nil

\* ------------------------------------------- the measurementApi object
\* MEASUREMENTS_API = "/measurement/measurements"
MEASUREMENTS_API == <<"/", "measurement", "/", "measurements">>
\* NewMeasurementApi: &measurementApi{client, MEASUREMENTS_API}
NewMeasurementApi == [client |-> "client", basePath |-> MEASUREMENTS_API]

\* ---- concurrent page traversal: each call has its own locals
CallIds == 1..NumCalls
NoRequest == [client |-> "", path |-> <<>>]
NoCallYet ==
    [pc |-> "idle", op |-> "none",
     coll |-> MeasurementCollection(RefNoQuery, RefEmpty, RefEmpty, <<>>),
     path |-> <<>>, request |-> NoRequest, resp |-> NoResp, outcome |-> NoOutcome]
ConcurrentCollections ==
    {MeasurementCollection(RefNoQuery, n, p, <<>>) :
        n \in {RefEmpty, RefFull, RefBad}, p \in {RefEmpty, RefFull, RefBad}}
ConcurrentResponses ==
    {[terr |-> TRUE, status |-> 0, body |-> EmptyBody],
     [terr |-> FALSE, status |-> StatusInternalServerError, body |-> ErrorPayloadBody],
     [terr |-> FALSE, status |-> StatusOK, body |-> CollectionBody(<<>>)],
     [terr |-> FALSE, status |-> StatusOK, body |-> CollectionBody(<<"m1">>)]}

\* (variant: getPage keeps the client of the page on the shared object)
CallGetPageWritesApi(i, o, c, reference) ==
    /\ calls[i].pc = "idle"
    /\ api' = [api EXCEPT !.client = IF IsAbsent(reference) THEN "none" ELSE "pageClient"]
    /\ IF IsAbsent(reference)
       THEN calls' = [calls EXCEPT ![i] =
                [@ EXCEPT !.pc = "done", !.op = o, !.coll = c,
                          !.outcome = Outcome(Nil, Nil)]]
       ELSE IF UrlParse(reference).err
       THEN calls' = [calls EXCEPT ![i] =
                [@ EXCEPT !.pc = "done", !.op = o, !.coll = c,
                          !.outcome = Outcome(Nil, ClientError("Unparsable URL given for page reference", "GetPage"))]]
       ELSE calls' = [calls EXCEPT ![i] =
                [@ EXCEPT !.pc = "parsed", !.op = o, !.coll = c,
                          !.path = PagePath(UrlParse(reference))]]
    /\ UNCHANGED <<travVars, jsonVars, get>>
\* call i runs getPage up to its return or to the call of getCommon
CallGetPage(i, o, c, reference) ==
    /\ calls[i].pc = "idle"
    /\ IF IsAbsent(reference)
       THEN calls' = [calls EXCEPT ![i] =
                [@ EXCEPT !.pc = "done", !.op = o, !.coll = c,
                          !.outcome = Outcome(Nil, Nil)]]
       ELSE IF UrlParse(reference).err
       THEN calls' = [calls EXCEPT ![i] =
                [@ EXCEPT !.pc = "done", !.op = o, !.coll = c,
                          !.outcome = Outcome(Nil, ClientError("Unparsable URL given for page reference", "GetPage"))]]
       ELSE calls' = [calls EXCEPT ![i] =
                [@ EXCEPT !.pc = "parsed", !.op = o, !.coll = c,
                          !.path = PagePath(UrlParse(reference))]]
    /\ UNCHANGED <<travVars, jsonVars, api, get>>

CallNextPage(i, c) == CallGetPage(i, "NextPage", c, c.Next)

CallPreviousPage(i, c) == CallGetPage(i, "PreviousPage", c, c.Prev)

\* call i in getCommon: measurementApi.client.Get(path, ...) is invoked
CallClientGet(i) ==
    /\ calls[i].pc = "parsed"
    /\ calls' = [calls EXCEPT ![i] =
            [@ EXCEPT !.pc = "fetching",
                      !.request = [client |-> api.client, path |-> calls[i].path]]]
    /\ UNCHANGED <<travVars, jsonVars, api, get>>

\* client.Get returns r to call i; getCommon and getPage run to their return
CallClientGetReturns(i, r) ==
    /\ calls[i].pc = "fetching"
    /\ calls' = [calls EXCEPT ![i] =
            [@ EXCEPT !.pc = "done", !.resp = r, !.outcome = getPageResult(r)]]
    /\ UNCHANGED <<travVars, jsonVars, api, get>>

\* Get up to the point where it returns or blocks in client.Get
Get(measurementId) ==
    /\ get.pc = "idle"
    /\ IF Len(measurementId) = 0
       THEN get' = [get EXCEPT !.pc = "done", !.id = measurementId,
                       !.outcome = GetOutcome(Nil, ClientError("Getting measurement without an id is not allowed", "GetMeasurement"))]
       ELSE get' = [get EXCEPT !.pc = "fetching", !.id = measurementId,
                       !.request = api.basePath \o <<"/">> \o QueryEscape(measurementId),
                       !.fetches = get.fetches + 1]
    /\ UNCHANGED <<travVars, jsonVars, api, calls>>

\* client.Get returns r; Get runs to its return
GetClientGetReturns(r) ==
    /\ get.pc = "fetching"
    /\ get' = [get EXCEPT !.pc = "done", !.resp = r, !.outcome = GetResult(r)]
    /\ UNCHANGED <<travVars, jsonVars, api, calls>>

NextGet ==
    \/ \E id \in MeasurementIds : Get(id)
    \/ \E r \in GetResponses : GetClientGetReturns(r)

InitConcurrent ==
    /\ pc = "idle"
    /\ op = "none"
    /\ coll = MeasurementCollection(RefNoQuery, RefEmpty, RefEmpty, <<>>)
    /\ request = <<>>
    /\ fetches = 0
    /\ resp = NoResp
    /\ outcome = NoOutcome
    /\ last = NoCall
    /\ jin = NoArgument
    /\ jout = NotReturned
    /\ api = NewMeasurementApi
    /\ calls = [i \in CallIds |-> NoCallYet]
    /\ get = NoGet

NextConcurrent ==
    \/ \E i \in CallIds, c \in ConcurrentCollections : CallNextPage(i, c)
    \/ \E i \in CallIds, c \in ConcurrentCollections : CallPreviousPage(i, c)
    \/ \E i \in CallIds : CallClientGet(i)
    \/ \E i \in CallIds, r \in ConcurrentResponses : CallClientGetReturns(i, r)

SpecConcurrent == InitConcurrent /\ [][NextConcurrent]_vars

SpecGet == InitConcurrent /\ [][NextGet]_vars

\* getPage up to the point where it returns or blocks in client.Get
getPage(o, c, reference) ==
    /\ pc = "idle" \/ (pc = "done" /\ ~last.valid)
    /\ last' = IF pc = "done" THEN Summary(SelectedLink) ELSE last
    /\ op' = o
    /\ coll' = c
    /\ resp' = NoResp
    /\ IF IsAbsent(reference)
       THEN /\ pc' = "done"
            /\ outcome' = Outcome(Nil, Nil)
            /\ request' = <<>>
            /\ fetches' = 0
       ELSE IF UrlParse(reference).err
       THEN /\ pc' = "done"
            /\ outcome' = Outcome(Nil, ClientError("Unparsable URL given for page reference", "GetPage"))
            /\ request' = <<>>
            /\ fetches' = 0
       ELSE /\ pc' = "fetching"
            /\ outcome' = NoOutcome
            /\ request' = PagePath(UrlParse(reference))
            /\ fetches' = 1
    /\ UNCHANGED jsonVars
    /\ UNCHANGED moreVars

\* (variant: NextPage selecting the wrong link)
NextPageFollowsPrev(c) == getPage("NextPage", c, c.Prev)
NextPage(c) == getPage("NextPage", c, c.Next)

PreviousPage(c) == getPage("PreviousPage", c, c.Prev)

\* a client.Get result after which the call returns an error
Failed(r) == r.terr \/ getCommonStatusCheck(r) \/ parseMeasurementCollectionResponse(r.body).err # Nil

\* (variant: a failed client.Get is repeated once before the call returns)
ClientGetRetriesOnce(r) ==
    /\ pc = "fetching"
    /\ resp' = r
    /\ IF Failed(r) /\ fetches < 2
       THEN /\ fetches' = fetches + 1
            /\ UNCHANGED <<pc, outcome>>
       ELSE /\ outcome' = getPageResult(r)
            /\ pc' = "done"
            /\ UNCHANGED fetches
    /\ UNCHANGED <<op, coll, request, last, jin, jout>>
    /\ UNCHANGED moreVars
\* client.Get returns r; getCommon and getPage run to their return
ClientGetReturns(r) ==
    /\ pc = "fetching"
    /\ resp' = r
    /\ outcome' = getPageResult(r)
    /\ pc' = "done"
    /\ UNCHANGED <<op, coll, request, fetches, last, jin, jout>>
    /\ UNCHANGED moreVars

Init ==
    /\ pc = "idle"
    /\ op = "none"
    /\ coll = MeasurementCollection(RefNoQuery, RefEmpty, RefEmpty, <<>>)
    /\ request = <<>>
    /\ fetches = 0
    /\ resp = NoResp
    /\ outcome = NoOutcome
    /\ last = NoCall
    /\ jin = NoArgument
    /\ jout = NotReturned
    /\ api = NewMeasurementApi
    /\ calls = [i \in CallIds |-> NoCallYet]
    /\ get = NoGet

Next ==
    \/ \E c \in Collections : NextPage(c)
    \/ \E c \in Collections : PreviousPage(c)
    \/ \E r \in Responses : ClientGetReturns(r)

Spec == Init /\ [][Next]_vars

\* ---- the serializer alone: the argument is drawn, JsonFromObject applied
JsonFromObject ==
    /\ ~jout.done
    /\ jout' = JsonFromObjectResult(jin)
    /\ UNCHANGED <<jin, pc, op, coll, request, fetches, resp, outcome, last>>
    /\ UNCHANGED moreVars

InitJson ==
    /\ pc = "idle"
    /\ op = "none"
    /\ coll = MeasurementCollection(RefNoQuery, RefEmpty, RefEmpty, <<>>)
    /\ request = <<>>
    /\ fetches = 0
    /\ resp = NoResp
    /\ outcome = NoOutcome
    /\ last = NoCall
    /\ jin \in Arguments
    /\ jout = NotReturned
    /\ api = NewMeasurementApi
    /\ calls = [i \in CallIds |-> NoCallYet]
    /\ get = NoGet

NextJson == JsonFromObject

SpecJson == InitJson /\ [][NextJson]_vars

\* ================================================================ claims
Fetched == fetches > 0
DecodedPage == parseMeasurementCollectionResponse(resp.body)

\* C1: NextPage and PreviousPage alike: when the selected link of the given
\* collection is the empty string, the call has returned (no collection, no
\* error) and made no client.Get invocation, whatever the other link, the
\* self link and the items are.
C1_AbsentLinkNoFetch ==
    (op # "none" /\ SelectedLink = RefEmpty) =>
        /\ pc = "done"
        /\ outcome = Outcome(Nil, Nil)
        /\ fetches = 0
        /\ request = <<>>
C1_Witness ==
    /\ pc = "done" /\ op = "PreviousPage"
    /\ coll.Prev = RefEmpty /\ coll.Next = RefFull
    /\ coll.Self = RefFull /\ Len(coll.Measurements) > 0
    /\ outcome = Outcome(Nil, Nil) /\ fetches = 0

\* C2: when the selected link is non-empty, client.Get returns status 200 OK
\* (the one status getCommon takes as success) and the body decodes to a
\* collection without items, the call returns (no collection, no error),
\* the very outcome of an absent link.
C2_EmptyPageIsNoPage ==
    (/\ pc = "done" /\ SelectedLink # RefEmpty /\ Fetched
     /\ ~resp.terr /\ resp.status = StatusOK
     /\ DecodedPage.err = Nil
     /\ Len(DecodedPage.collection[1].Measurements) = 0)
        => outcome = Outcome(Nil, Nil)
C2_Witness ==
    /\ pc = "done" /\ op = "NextPage" /\ coll.Next = RefFull
    /\ resp = [terr |-> FALSE, status |-> StatusOK, body |-> CollectionBody(<<>>)]
    /\ outcome = Outcome(Nil, Nil) /\ fetches = 1

\* C3: when client.Get completes with a status other than 200 OK, the call
\* returns no collection and a non-nil error, for every body: empty, no
\* error payload, or one that would decode to a collection with items.
C3_BadStatusIsError ==
    (pc = "done" /\ Fetched /\ ~resp.terr /\ resp.status # StatusOK)
        => (outcome.collection = Nil /\ outcome.err # Nil)
C3_Witness ==
    /\ pc = "done" /\ Fetched
    /\ resp = [terr |-> FALSE, status |-> StatusInternalServerError,
               body |-> CollectionBody(<<"m1">>)]
    /\ outcome.collection = Nil /\ outcome.err # Nil

\* C4: for every non-empty, parsable page reference the path handed to
\* client.Get is exactly the path and query written in the reference:
\* nothing added, removed or re-encoded.
C4_RequestVerbatim ==
    Fetched => request = RawPathAndQuery(SelectedLink)

\* C5: NextPage and PreviousPage are one algorithm applied to the link each
\* selects: two calls whose selected links are the same string make the
\* same request (or both make none), and with the same client.Get result
\* return the same outcome, whatever the other fields of their collections
\* and whichever of the two operations each is.
C5_SameLinkSameOutcome ==
    (last.valid /\ pc = "done" /\ last.ref = SelectedLink) =>
        /\ last.fetched = Fetched
        /\ last.request = request
        /\ (last.resp = resp => last.outcome = outcome)
C5_Witness ==
    /\ last.valid /\ pc = "done" /\ op = "PreviousPage"
    /\ last.ref = SelectedLink /\ coll.Next # coll.Prev
    /\ Fetched /\ last.resp = resp
    /\ outcome.collection # Nil /\ last.outcome = outcome

\* C10: every call makes at most one client.Get invocation and returns
\* when it returns: a transport failure, a status other than 200 OK or a
\* decode failure ends the call with an error after that one invocation.
C10_AtMostOneFetch ==
    /\ [](fetches <= 1)
    /\ []((pc = "done" /\ Fetched /\ Failed(resp))
            => (fetches = 1 /\ outcome.collection = Nil /\ outcome.err # Nil))
    /\ [][pc = "fetching" => (pc' = "done" /\ fetches' = fetches)]_vars
C10_Witness ==
    /\ pc = "done" /\ fetches = 1 /\ resp.terr
    /\ outcome.collection = Nil /\ outcome.err # Nil

\* ------------------------------------------------- claims on the serializer
Serialized == jout.done /\ jout.err = NoError
Fields == jin.val.items
Members == jout.json[1].members
\* a directive on a kind it does not fit, as the claims word it
DirectiveMismatch(f) ==
    \/ f.jsonc = "flat" /\ f.val.k \notin {"map", "struct"}
    \/ f.jsonc = "collection" /\ f.val.k # "seq"
\* the zero/empty values the claims list
ZeroValue(val) ==
    \/ val.k = "string" /\ val.v = ""
    \/ val.k = "number" /\ val.v = "0"
    \/ val.k = "bool" /\ val.v = "false"
    \/ val.k = "ptr" /\ val.items = <<>>
    \/ val.k = "seq" /\ val.items = <<>>
    \/ val.k = "map" /\ val.items = <<>>
\* a mismatch in the record itself or in a record rendered as part of it
RECURSIVE MismatchRendered(_)
MismatchRendered(val) ==
    IF val.k = "struct"
    THEN \E i \in 1..Len(val.items) :
            LET f == val.items[i]
            IN  \/ DirectiveMismatch(f)
                \/ /\ f.jsonName # "-"
                   /\ f.jsonc = "flat" \/ ~("omitempty" \in f.jsonOpts /\ ZeroValue(f.val))
                   /\ MismatchRendered(f.val)
    ELSE \E i \in 1..Len(val.items) : MismatchRendered(val.items[i].val)

\* C6: in the output object every entry contributed by a flatten-tagged
\* field precedes every entry of a non-flatten field, wherever the flatten
\* field is declared, and the non-flatten entries keep declaration order.
C6_FlattenEntriesFirst ==
    Serialized =>
        \A i, j \in 1..Len(Members) :
            i < j =>
                /\ ~(Fields[Members[i].src].jsonc # "flat" /\ Fields[Members[j].src].jsonc = "flat")
                /\ (Fields[Members[i].src].jsonc # "flat" /\ Fields[Members[j].src].jsonc # "flat")
                        => Members[i].src < Members[j].src
C6_Witness ==
    /\ Serialized /\ Len(Members) = 4
    /\ Fields[Members[1].src].jsonc = "flat" /\ Members[1].src = 2
    /\ Members[3].src = 1 /\ Members[4].src = 3

C8_ErrorExactlyTwoCases ==
    jout.done =>
        /\ (jout.err # NoError) <=> (jin.val.k # "struct" \/ MismatchRendered(jin.val))
        /\ (jout.err = NoError) <=> (jout.json # <<>>)
\* C8 amended: an error is returned exactly when the argument is not the
\* address of a structured record (a bare string, or a record passed by
\* value) or a field of the record, or of a record rendered as part of it,
\* carries a directive on an incompatible kind; every other input gives
\* JSON text and no error.
C8_ErrorExactlyWhenNotAddressedRecordOrMismatch ==
    jout.done =>
        /\ (jout.err # NoError) <=>
                (~(jin.form = "pointer" /\ jin.val.k = "struct") \/ MismatchRendered(jin.val))
        /\ (jout.err = NoError) <=> (jout.json # <<>>)
C8_Witness ==
    /\ jout.done /\ jin.form = "value" /\ jin.val.k = "struct"
    /\ ~MismatchRendered(jin.val) /\ Len(Fields) = 2
    /\ jout.err # NoError /\ jout.json = <<>>

\* C9: of a serialized record, a non-flatten, non-hard-omitted field marked
\* omit-if-empty is absent from the output when it holds the zero value of
\* its kind and present under its effective name otherwise; a field
\* without omit-if-empty is present even with the zero value.
C9_OmitIfEmpty ==
    Serialized =>
        \A i \in 1..Len(Fields) :
            LET f == Fields[i]
                mine == {j \in 1..Len(Members) : Members[j].src = i}
            IN  (f.jsonc # "flat" /\ f.jsonName # "-") =>
                    IF "omitempty" \in f.jsonOpts /\ ZeroValue(f.val)
                    THEN mine = {}
                    ELSE /\ Cardinality(mine) = 1
                         /\ \A j \in mine :
                                Members[j].key = IF f.jsonName # "" THEN f.jsonName ELSE f.id
C9_Witness ==
    /\ Serialized /\ Len(Fields) = 3 /\ Len(Members) = 2
    /\ Fields[1] = Field("G", "", {"omitempty"}, "", NumberV("0"))
    /\ Fields[2] = Field("E", "myE", {"omitempty"}, "", StringV("x"))
    /\ Fields[3] = Field("I", "myI", {"otherstuff"}, "", StringV(""))
    /\ Members[1].key = "myE" /\ Members[2].key = "myI"

\* the value of a member of the JSON object in the response body
BodyMember(key) ==
    IF key \in DOMAIN resp.body[1].obj THEN resp.body[1].obj[key].v ELSE <<>>

\* C11: every call ends in (collection, no error), (no collection, no
\* error) or (no collection, error): a collection never comes with an
\* error, and a returned collection has at least one item and is the
\* collection written in the body of the 200 OK response to the call's
\* one request.
C11_ThreeOutcomes ==
    pc = "done" =>
        /\ ~(outcome.collection # Nil /\ outcome.err # Nil)
        /\ outcome.collection # Nil =>
            /\ Len(outcome.collection) = 1
            /\ fetches = 1 /\ ~resp.terr /\ resp.status = StatusOK
            /\ Len(resp.body) > 0 /\ resp.body[1].json
            /\ Len(outcome.collection[1].Measurements) >= 1
            /\ outcome.collection[1].Measurements = BodyMember("measurements")
            /\ outcome.collection[1].Next = BodyMember("next")
            /\ outcome.collection[1].Prev = BodyMember("prev")
            /\ outcome.collection[1].Self = BodyMember("self")
C11_Witness ==
    /\ pc = "done" /\ op = "NextPage" /\ coll.Next = RefFull
    /\ resp = [terr |-> FALSE, status |-> StatusOK, body |-> CollectionBody(<<"m1">>)]
    /\ outcome = Outcome(Ptr(MeasurementCollection(RefNoQuery, RefFull, <<>>, <<"m1">>)), Nil)

\* a reference holding, before its query, a "%" that starts no escape
BadEscape(ref) ==
    \E i \in 1..Len(Before(ref, "?")) :
        /\ ref[i] = "%"
        /\ ~(i + 2 <= Len(Before(ref, "?")) /\ IsHex(ref[i + 1]) /\ IsHex(ref[i + 2]))

\* C12: when the selected link is non-empty and cannot be parsed as a URL,
\* the call has returned (no collection, error) and client.Get was not
\* invoked by it.
C12_UnparsableLinkNoFetch ==
    (op # "none" /\ SelectedLink # RefEmpty /\ BadEscape(SelectedLink)) =>
        /\ pc = "done"
        /\ outcome.collection = Nil
        /\ outcome.err # Nil
        /\ fetches = 0
        /\ request = <<>>
C12_Witness ==
    /\ pc = "done" /\ op = "PreviousPage"
    /\ coll.Prev = RefBad /\ coll.Next = RefFull
    /\ outcome = Outcome(Nil, ClientError("Unparsable URL given for page reference", "GetPage"))
    /\ fetches = 0

\* the link call i selects
CallLink(i) == IF calls[i].op = "NextPage" THEN calls[i].coll.Next ELSE calls[i].coll.Prev

\* C13: under every interleaving of the calls running on one API object,
\* the object's client and base path stay as NewMeasurementApi set them,
\* and a call that has returned made the request and returned the outcome
\* that its own collection argument and the result of its own client.Get
\* give: nothing of another call enters.
C13_CallsIndependent ==
    /\ api = NewMeasurementApi
    /\ \A i \in CallIds :
        calls[i].pc = "done" =>
            IF CallLink(i) = RefEmpty
            THEN calls[i].outcome = Outcome(Nil, Nil) /\ calls[i].request = NoRequest
            ELSE IF BadEscape(CallLink(i))
            THEN /\ calls[i].outcome.collection = Nil /\ calls[i].outcome.err # Nil
                 /\ calls[i].request = NoRequest
            ELSE /\ calls[i].request =
                        [client |-> "client", path |-> PagePath(UrlParse(CallLink(i)))]
                 /\ calls[i].outcome = getPageResult(calls[i].resp)
C13_Witness ==
    /\ calls[1].pc = "done" /\ calls[2].pc = "done"
    /\ calls[1].op = "NextPage" /\ calls[2].op = "PreviousPage"
    /\ CallLink(1) = RefFull /\ CallLink(2) = RefFull
    /\ calls[1].outcome.collection # Nil
    /\ calls[2].outcome.err # Nil

\* C14: when Get has returned: with an empty id it returned a client
\* error and no measurement and made no request; with a non-empty id and a
\* response of any status other than 200 OK it returned (nil, nil), the
\* same for every such status, where Create, Delete and getCommon (Find,
\* the page traversal) return the remote error of the response for a status
\* other than their own success status; an error Get returns is always a
\* ClientError.
C14_GetHidesRemoteErrors ==
    get.pc = "done" =>
        /\ Len(get.id) = 0 =>
            /\ get.outcome = GetOutcome(Nil, ClientError("Getting measurement without an id is not allowed", "GetMeasurement"))
            /\ get.fetches = 0 /\ get.request = <<>>
        /\ (Len(get.id) > 0 /\ ~get.resp.terr /\ get.resp.status # StatusOK) =>
            /\ get.outcome = GetOutcome(Nil, Nil)
            /\ get.fetches = 1
            /\ getCommon(get.resp).err = CreateErrorFromResponse(get.resp.body)
            /\ getPageResult(get.resp).err = CreateErrorFromResponse(get.resp.body)
            /\ get.resp.status # StatusCreated =>
                CreateResult(get.resp).err = CreateErrorFromResponse(get.resp.body)
            /\ get.resp.status # StatusNoContent =>
                DeleteResult(get.resp) = CreateErrorFromResponse(get.resp.body)
        /\ get.outcome.err # Nil => get.outcome.err[1].ErrorType = <<"ClientError">>
C14_Witness ==
    /\ get.pc = "done" /\ get.id = <<"m", "/">>
    /\ get.request = MEASUREMENTS_API \o <<"/", "m", "%", "2", "F">>
    /\ get.resp = [terr |-> FALSE, status |-> StatusInternalServerError, body |-> ErrorPayloadBody]
    /\ get.outcome = GetOutcome(Nil, Nil)

====
